---- MODULE Spec2Model ----
(***************************************************************************)
(* A model of the treepro command (src/treepro/cli.py): one invocation of  *)
(* treepro() as a pipeline of steps, with its collaborators (click's       *)
(* argument validation, the profile file, the interactive prompt, the      *)
(* clipboard, the filesystem) as nondeterministic environments.            *)
(*                                                                         *)
(* Conventions                                                             *)
(*   - Python's None is "" for the string arguments (both are falsy) and   *)
(*     the one-element sequence None for a selection.                      *)
(*   - A path inside the project is a sequence of character codes, so that *)
(*     sorted() and os.path.relpath() are computed, not assumed.           *)
(*   - A line of output is a record Msg(kind, name, items, path); a text   *)
(*     joined with "\n" is the sequence of its lines.                      *)
(***************************************************************************)
EXTENDS Integers, Sequences, FiniteSets, TLC

\* Longest answer the prompt gives (number of ticked choices).
MaxSelected == 2

VARIABLES
    directory, output, file_flag, config_name, edit_config, save_config_name,
    fs_tree, config_file, init_file,
    pc, project_dir, output_file, output_lines, configs, preset, items,
    selected, selected_files, parts,
    prompt_choices, prompt_default,
    clipboard_text, file_text, calls, raised

vars == <<directory, output, file_flag, config_name, edit_config,
          save_config_name, fs_tree, config_file, init_file,
          pc, project_dir, output_file, output_lines, configs, preset, items,
          selected, selected_files, parts, prompt_choices, prompt_default,
          clipboard_text, file_text, calls, raised>>

args == <<directory, output, file_flag, config_name, edit_config,
          save_config_name, fs_tree, init_file>>

(***************************************************************************)
(* Values                                                                  *)
(***************************************************************************)
None == <<-1>>

\* Truthiness that knows None only (`if selected is None`).
FalsyNoneOnly(v) == v = None

Falsy(v) == v = None \/ v = <<>>

Msg(kind, name, its, path) ==
    [kind |-> kind, name |-> name, items |-> its, path |-> path]

Line(kind) == Msg(kind, "", <<>>, <<>>)

Last(s) == s[Len(s)]

Count(c) == Cardinality({i \in DOMAIN calls : calls[i] = c})

Called(c) == \E i \in DOMAIN calls : calls[i] = c

(***************************************************************************)
(* The filesystem the command is started in: "p" is a directory, "old.txt" *)
(* an existing regular file, "out.txt" does not exist.                     *)
(***************************************************************************)
Positionals == {"p", "out.txt", "old.txt"}

isdir(p) == p \in {"p", "."}

isfile(p) == p = "old.txt"

Codes(p) == IF p = "p" THEN <<112>> ELSE <<46>>

join(dir, rel) == Codes(dir) \o <<47>> \o rel

relpath(p, start) == SubSeq(p, Len(Codes(start)) + 2, Len(p))

(***************************************************************************)
(* The project tree (tree.py is not part of the sources; the index is the  *)
(* one of the specification: identifiers 1..n in depth-first order,        *)
(* siblings by name, parent 0 for a top-level entry).                      *)
(*   SampleTree:  s/  s/x  s.t                                             *)
(***************************************************************************)
Entry(path, depth, is_dir, parent) ==
    [path |-> path, depth |-> depth, is_dir |-> is_dir, parent |-> parent]

EmptyTree == <<>>

SampleTree == << Entry(<<115>>, 0, TRUE, 0),
                 Entry(<<115, 47, 120>>, 1, FALSE, 1),
                 Entry(<<115, 46, 116>>, 0, FALSE, 0) >>

Trees == {EmptyTree, SampleTree}

get_all_items(dir) ==
    [i \in DOMAIN fs_tree |-> [fs_tree[i] EXCEPT !.path = join(dir, @)]]

get_full_project_tree(fmt, dir) ==
    Msg("tree", fmt, [i \in DOMAIN fs_tree |-> i], <<>>)

RECURSIVE IsUnder(_, _, _)
IsUnder(index, i, d) ==
    LET p == index[i].parent
    IN  IF p = 0 THEN FALSE ELSE p = d \/ IsUnder(index, p, d)

gather_selected_files(index, sel) ==
    { index[i].path : i \in
        { i \in DOMAIN index :
            /\ ~index[i].is_dir
            /\ \E k \in DOMAIN sel :
                  \/ sel[k] = i
                  \/ /\ sel[k] \in DOMAIN index
                     /\ index[sel[k]].is_dir
                     /\ IsUnder(index, i, sel[k]) } }

(***************************************************************************)
(* sorted(): ascending order, of paths as Python orders strings and of     *)
(* identifiers as integers.                                                *)
(***************************************************************************)
LexLess(a, b) ==
    \E k \in 1..(Len(a) + 1) :
        /\ k <= Len(b)
        /\ \A j \in 1..(k - 1) : a[j] = b[j]
        /\ (k = Len(a) + 1 \/ a[k] < b[k])

RECURSIVE sorted(_)
sorted(S) ==
    IF S = {} THEN <<>>
    ELSE LET m == CHOOSE x \in S : \A y \in S \ {x} : LexLess(x, y)
         IN  <<m>> \o sorted(S \ {m})

RECURSIVE Ascending(_)
Ascending(S) ==
    IF S = {} THEN <<>>
    ELSE LET m == CHOOSE x \in S : \A y \in S : x <= y
         IN  <<m>> \o Ascending(S \ {m})

(***************************************************************************)
(* The profile file: a function from the stored names to their items.      *)
(* The file is the user's; a profile may be empty or name an identifier    *)
(* the tree no longer has (4 is in no tree of Trees).                      *)
(***************************************************************************)
ProfileNames == {"a", "b"}

NoFile == [n \in {} |-> <<>>]

InitFiles == { NoFile,
               [n \in {"a"} |-> <<>>],
               [n \in {"a"} |-> <<4>>],
               [n \in {"a", "b"} |-> IF n = "a" THEN <<1, 3>> ELSE <<2, 4>>] }

load_configs == config_file

\* A store that keeps the written profile alone.
PutAlone(cfgs, name, sel) == [n \in {name} |-> sel]

Put(cfgs, name, sel) ==
    [n \in DOMAIN cfgs \cup {name} |-> IF n = name THEN sel ELSE cfgs[n]]

(***************************************************************************)
(* The prompt: the ticked choices in the order of the list, or None when   *)
(* the user cancels.                                                       *)
(***************************************************************************)
Answers(choices) ==
    {None} \cup
    { Ascending(S) : S \in { T \in SUBSET {choices[i] : i \in DOMAIN choices} :
                                 Cardinality(T) <= MaxSelected } }

Formats == {"text", "json", "yaml"}

Init ==
    /\ directory \in Positionals
    /\ output \in Formats
    /\ file_flag \in {"", "treepro.txt"}
    /\ config_name \in {""} \cup ProfileNames
    /\ edit_config \in BOOLEAN
    /\ save_config_name \in {""} \cup ProfileNames
    /\ fs_tree \in Trees
    /\ config_file \in InitFiles
    /\ init_file = config_file
    /\ pc = "parse"
    /\ project_dir = ""
    /\ output_file = ""
    /\ output_lines = <<>>
    /\ configs = NoFile
    /\ preset = <<>>
    /\ items = <<>>
    /\ selected = None
    /\ selected_files = {}
    /\ parts = <<>>
    /\ prompt_choices = <<>>
    /\ prompt_default = None
    /\ clipboard_text = <<>>
    /\ file_text = <<>>
    /\ calls = <<>>
    /\ raised = ""

(***************************************************************************)
(* click's validation of the arguments, before treepro() is entered: the   *)
(* positional is a click.Path(exists=False, file_okay=False), which        *)
(* refuses a path that exists and is a regular file.                       *)
(***************************************************************************)
ParseArgs ==
    /\ pc = "parse"
    /\ IF isfile(directory)
       THEN pc' = "raised" /\ raised' = "UsageError"
       ELSE pc' = "resolve" /\ UNCHANGED raised
    /\ UNCHANGED <<args, config_file, project_dir, output_file, output_lines,
                   configs, preset, items, selected, selected_files, parts,
                   prompt_choices, prompt_default, clipboard_text, file_text,
                   calls>>

\* 1) Determine if the 'directory' argument is actually an output filename
ResolveDirectory ==
    /\ pc = "resolve"
    /\ \/ /\ file_flag # "" /\ isdir(directory)
          /\ project_dir' = directory /\ output_file' = file_flag
          /\ pc' = "render" /\ UNCHANGED raised
       \/ /\ file_flag # "" /\ ~isdir(directory)
          /\ project_dir' = "." /\ output_file' = directory
          /\ pc' = "render" /\ UNCHANGED raised
       \/ /\ file_flag = "" /\ ~isdir(directory)
          /\ pc' = "raised" /\ raised' = "Directory does not exist."
          /\ UNCHANGED <<project_dir, output_file>>
       \/ /\ file_flag = "" /\ isdir(directory)
          /\ project_dir' = directory /\ output_file' = ""
          /\ pc' = "render" /\ UNCHANGED raised
    /\ UNCHANGED <<args, config_file, output_lines, configs, preset, items,
                   selected, selected_files, parts, prompt_choices,
                   prompt_default, clipboard_text, file_text, calls>>

\* 2) project structure
RenderStructure ==
    /\ pc = "render"
    /\ calls' = Append(calls, "get_full_project_tree")
    /\ output_lines' = output_lines \o
            << Line("PROJECT STRUCTURE :"),
               get_full_project_tree(output, project_dir) >>
    /\ pc' = "load"
    /\ UNCHANGED <<args, config_file, project_dir, output_file, configs,
                   preset, items, selected, selected_files, parts,
                   prompt_choices, prompt_default, clipboard_text, file_text,
                   raised>>

\* Load existing configurations
LoadConfigs ==
    /\ pc = "load"
    /\ calls' = Append(calls, "load_configs")
    /\ configs' = load_configs
    /\ IF config_name # "" /\ config_name \notin DOMAIN configs'
       THEN /\ pc' = "raised" /\ raised' = "Configurazione non trovata."
            /\ UNCHANGED preset
       ELSE /\ preset' = IF config_name # "" THEN configs'[config_name]
                                             ELSE <<>>
            /\ pc' = "index" /\ UNCHANGED raised
    /\ UNCHANGED <<args, config_file, project_dir, output_file, output_lines,
                   items, selected, selected_files, parts, prompt_choices,
                   prompt_default, clipboard_text, file_text>>

\* The index step without its early return.
BuildIndexNoReturn ==
    /\ pc = "index"
    /\ calls' = Append(calls, "get_all_items")
    /\ items' = get_all_items(project_dir)
    /\ pc' = "select"
    /\ UNCHANGED <<args, config_file, project_dir, output_file, output_lines,
                   configs, preset, selected, selected_files, parts,
                   prompt_choices, prompt_default, clipboard_text, file_text,
                   raised>>

\* 3) interactive selection: the index, and the early return on an empty one
BuildIndex ==
    /\ pc = "index"
    /\ calls' = Append(calls, "get_all_items")
    /\ items' = get_all_items(project_dir)
    /\ IF items' = <<>>
       THEN /\ output_lines' = Append(output_lines,
                    Line("No files found (or all files are ignored)."))
            /\ pc' = "done"
       ELSE /\ pc' = "select" /\ UNCHANGED output_lines
    /\ UNCHANGED <<args, config_file, project_dir, output_file, configs,
                   preset, selected, selected_files, parts, prompt_choices,
                   prompt_default, clipboard_text, file_text, raised>>

\* The decision with --edit-config ignored.
UsePresetIgnoringEdit == config_name # ""

\* Decide whether to use preset or open interactive checkbox
UsePreset == config_name # "" /\ ~edit_config

Select ==
    /\ pc = "select"
    /\ LET choices == Ascending(DOMAIN items)
       IN  \/ /\ UsePreset
              /\ selected' = preset
              /\ output_lines' = Append(output_lines,
                      Msg("Using configuration", config_name, preset, <<>>))
              /\ UNCHANGED <<prompt_choices, prompt_default, calls>>
           \/ /\ ~UsePreset /\ ~Falsy(preset)
              /\ \E answer \in Answers(choices) : selected' = answer
              /\ prompt_choices' = choices
              /\ prompt_default' = preset
              /\ calls' = Append(calls, "checkbox")
              /\ UNCHANGED output_lines
           \/ /\ ~UsePreset /\ Falsy(preset)
              /\ \E answer \in Answers(choices) : selected' = answer
              /\ prompt_choices' = choices
              /\ prompt_default' = None
              /\ calls' = Append(calls, "checkbox")
              /\ UNCHANGED output_lines
    /\ pc' = "check"
    /\ UNCHANGED <<args, config_file, project_dir, output_file, configs,
                   preset, items, selected_files, parts, clipboard_text,
                   file_text, raised>>

\* if not selected: ... return
CheckSelected ==
    /\ pc = "check"
    /\ IF Falsy(selected)
       THEN /\ output_lines' = Append(output_lines, Line("No items selected."))
            /\ pc' = "done"
       ELSE /\ pc' = "save" /\ UNCHANGED output_lines
    /\ UNCHANGED <<args, config_file, project_dir, output_file, configs,
                   preset, items, selected, selected_files, parts,
                   prompt_choices, prompt_default, clipboard_text, file_text,
                   calls, raised>>

\* Save new configuration or update existing one
SaveConfig ==
    /\ pc = "save"
    /\ LET saving   == save_config_name # ""
           updating == config_name # "" /\ edit_config
           c1 == IF saving THEN Put(configs, save_config_name, selected)
                           ELSE configs
           c2 == IF updating THEN Put(c1, config_name, selected) ELSE c1
       IN  /\ configs' = c2
           /\ config_file' = IF saving \/ updating THEN c2 ELSE config_file
           /\ output_lines' = output_lines
                  \o (IF saving
                      THEN <<Msg("Configurazione salvata.", save_config_name,
                                 <<>>, <<>>)>>
                      ELSE <<>>)
                  \o (IF updating
                      THEN <<Msg("Configurazione aggiornata.", config_name,
                                 <<>>, <<>>)>>
                      ELSE <<>>)
           /\ calls' = calls
                  \o (IF saving THEN <<"save_configs">> ELSE <<>>)
                  \o (IF updating THEN <<"save_configs">> ELSE <<>>)
    /\ pc' = "gather"
    /\ UNCHANGED <<args, project_dir, output_file, preset, items, selected,
                   selected_files, parts, prompt_choices, prompt_default,
                   clipboard_text, file_text, raised>>

\* 4) gather and display selected files
Listing(files, dir) ==
    [k \in DOMAIN sorted(files) |->
        Msg("- ", "", <<>>, relpath(sorted(files)[k], dir))]

Gather ==
    /\ pc = "gather"
    /\ calls' = Append(calls, "gather_selected_files")
    /\ selected_files' = gather_selected_files(items, selected)
    /\ output_lines' = output_lines \o <<Line("SELECTED FILES:")>>
                           \o Listing(selected_files', project_dir)
    /\ pc' = IF selected_files' = {} THEN "clipboard" ELSE "read"
    /\ UNCHANGED <<args, config_file, project_dir, output_file, configs,
                   preset, items, selected, parts, prompt_choices,
                   prompt_default, clipboard_text, file_text, raised>>

\* 5) content of the selected files: one turn of the loop
Slot(rel, ok) ==
    IF ok THEN Msg("content", "", <<>>, rel)
          ELSE Msg("Error reading", "", <<>>, rel)

ReadFile ==
    /\ pc = "read"
    /\ LET k   == Len(parts) \div 2 + 1
           p   == sorted(selected_files)[k]
           rel == relpath(p, project_dir)
       IN  /\ \E ok \in BOOLEAN :
                  parts' = parts \o <<Msg("--- ", "", <<>>, rel), Slot(rel, ok)>>
           /\ pc' = IF k = Cardinality(selected_files) THEN "clipboard"
                                                        ELSE "read"
    /\ calls' = Append(calls, "open")
    /\ UNCHANGED <<args, config_file, project_dir, output_file, output_lines,
                   configs, preset, items, selected, selected_files,
                   prompt_choices, prompt_default, clipboard_text, file_text,
                   raised>>

\* The text both sinks build: the captured lines, the header, the content.
Document(lines, content) ==
    lines \o <<Line("CONTENT OF SELECTED FILES:")>> \o content

\* 6) copy to clipboard (include project structure + selected content)
CopyToClipboard ==
    /\ pc = "clipboard"
    /\ clipboard_text' = Document(output_lines, parts)
    /\ calls' = Append(calls, "copy")
    /\ \E ok \in BOOLEAN :
          output_lines' = Append(output_lines,
              IF ok THEN Line("Contents of project structure + selected files copied to clipboard.")
                    ELSE Line("Failed to copy to clipboard"))
    /\ pc' = "file"
    /\ UNCHANGED <<args, config_file, project_dir, output_file, configs,
                   preset, items, selected, selected_files, parts,
                   prompt_choices, prompt_default, file_text, raised>>

\* 7) saving to file (if requested)
SaveToFile ==
    /\ pc = "file"
    /\ \/ /\ output_file = ""
          /\ pc' = "done"
          /\ UNCHANGED <<output_lines, file_text, calls, raised>>
       \/ /\ output_file # ""
          /\ calls' = Append(calls, "write")
          /\ file_text' = Document(output_lines, parts)
          /\ output_lines' = Append(output_lines,
                 Msg("Contents of selected files saved to", output_file,
                     <<>>, <<>>))
          /\ pc' = "done"
          /\ UNCHANGED raised
       \/ /\ output_file # ""
          /\ calls' = Append(calls, "write")
          /\ pc' = "raised" /\ raised' = "OSError"
          /\ UNCHANGED <<output_lines, file_text>>
    /\ UNCHANGED <<args, config_file, project_dir, output_file, configs,
                   preset, items, selected, selected_files, parts,
                   prompt_choices, prompt_default, clipboard_text>>

Next ==
    \/ ParseArgs
    \/ ResolveDirectory
    \/ RenderStructure
    \/ LoadConfigs
    \/ BuildIndex
    \/ Select
    \/ CheckSelected
    \/ SaveConfig
    \/ Gather
    \/ ReadFile
    \/ CopyToClipboard
    \/ SaveToFile

Spec == Init /\ [][Next]_vars

(***************************************************************************)
(* Properties                                                              *)
(***************************************************************************)
Terminated == pc \in {"done", "raised"}

\* The selection step has run: the index was not empty and the run is past it.
SelectionObtained ==
    /\ items # <<>>
    /\ pc \notin {"parse", "resolve", "render", "load", "index", "select"}

EmptySelection == selected = None \/ selected = <<>>

NoLaterStage ==
    /\ ~Called("save_configs")
    /\ ~Called("gather_selected_files")
    /\ ~Called("open")
    /\ ~Called("copy")
    /\ ~Called("write")
    /\ config_file = init_file
    /\ selected_files = {}
    /\ parts = <<>>
    /\ clipboard_text = <<>>
    /\ file_text = <<>>

\* C1: once the selection step has produced an empty or cancelled selection
\* (from the prompt or from a loaded profile) and the check of it has run, the
\* command has returned normally, "No items selected." is its last output, and
\* no later stage has run: no profile written, no file read, nothing copied,
\* no output file written.
C1_EmptySelectionStops ==
    (SelectionObtained /\ pc # "check" /\ EmptySelection) =>
        /\ pc = "done"
        /\ Last(output_lines) = Line("No items selected.")
        /\ NoLaterStage

C1_Witness ==
    /\ pc = "done" /\ SelectionObtained /\ selected = <<>>
    /\ config_name = "a" /\ ~edit_config /\ save_config_name = "b"
    /\ output_file # ""

\* C2: a run that ends with a configuration error (directory that does not
\* exist, profile that is not stored) has invoked neither the structure
\* rendering nor the index build and has echoed nothing.
C2_ConfigErrorsBeforeTraversal ==
    raised \in {"Directory does not exist.", "Configurazione non trovata."} =>
        /\ ~Called("get_full_project_tree")
        /\ ~Called("get_all_items")
        /\ output_lines = <<>>

\* C3: the content holds, for the resolved files in sorted path order (the
\* order of the listing), one separator and one slot each, the slot being
\* the file's text or its "Error reading" line; and a run in which a read
\* failed still goes through both sinks and ends successfully.
ReadFailed == \E i \in DOMAIN parts : parts[i].kind = "Error reading"

C3_ReadFailureIsolated ==
    LET files == sorted(selected_files)
        n     == Len(parts) \div 2
    IN  /\ Len(parts) = 2 * n /\ n <= Len(files)
        /\ \A k \in 1..n :
              LET rel == relpath(files[k], project_dir)
              IN  /\ parts[2 * k - 1] = Msg("--- ", "", <<>>, rel)
                  /\ parts[2 * k] \in {Msg("content", "", <<>>, rel),
                                       Msg("Error reading", "", <<>>, rel)}
        /\ (Called("gather_selected_files") /\ pc # "read")
              => n = Len(files)
        /\ (ReadFailed /\ Terminated) =>
              /\ pc = "done"
              /\ Called("copy")
              /\ output_file # "" => file_text # <<>>

\* C4: a failure of a sink is reported and does not abort the run: after a
\* failed copy the file write is still attempted, and a run that attempted
\* the file write ends normally.
C4_SinkFailuresNonFatal ==
    Terminated =>
        /\ (Called("copy") /\ output_file # "") => Called("write")
        /\ Called("write") => pc = "done"

\* C5: the text handed to the clipboard and the text written to the file are
\* each the structure section, then the listing of the selected files, then
\* the content section, and nothing else.
Artifact ==
    << Line("PROJECT STRUCTURE :"), get_full_project_tree(output, project_dir) >>
    \o <<Line("SELECTED FILES:")>> \o Listing(selected_files, project_dir)
    \o <<Line("CONTENT OF SELECTED FILES:")>> \o parts

C5_ArtifactShape ==
    /\ Called("copy") => clipboard_text = Artifact
    /\ file_text # <<>> => file_text = Artifact

\* C6: when the index is empty the command has returned normally with "No
\* files found (or all files are ignored)." as its last output, and no later
\* stage has run: no prompt, no profile written, no file read, nothing
\* copied, no output file written.
C6_EmptyIndexStops ==
    (Called("get_all_items") /\ items = <<>>) =>
        /\ pc = "done"
        /\ Last(output_lines) = Line("No files found (or all files are ignored).")
        /\ ~Called("checkbox")
        /\ prompt_choices = <<>>
        /\ NoLaterStage

C6_Witness ==
    /\ pc = "done" /\ Called("get_all_items") /\ items = <<>>
    /\ save_config_name = "a" /\ output_file # ""

\* C7: the project directory is an existing directory; without the file flag
\* a positional that is no existing directory is fatal before any output;
\* with the file flag a positional that is an existing directory is the
\* project with treepro.txt as output file, and any other positional is the
\* output file with the current directory as project.
C7_ProjectDirectory ==
    pc \notin {"parse", "resolve"} =>
        /\ project_dir # "" => isdir(project_dir)
        /\ (file_flag = "" /\ ~isdir(directory)) =>
              pc = "raised" /\ output_lines = <<>>
        /\ (file_flag # "" /\ isdir(directory)) =>
              project_dir = directory /\ output_file = "treepro.txt"
        /\ (file_flag # "" /\ ~isdir(directory)) =>
              project_dir = "." /\ output_file = directory

\* C8: the profile file is written only when the final selection is not
\* empty and a profile was named for writing (--save-config NAME, or --config
\* NAME with --edit-config); then the named profiles hold exactly the final
\* selection and every other profile is as it was; in every other state the
\* file is as it was.
Requested ==
    (IF save_config_name # "" THEN {save_config_name} ELSE {})
    \cup (IF config_name # "" /\ edit_config THEN {config_name} ELSE {})

SaveStageDone ==
    SelectionObtained /\ ~EmptySelection /\ pc \notin {"check", "save"}

C8_ProfileStorage ==
    /\ Called("save_configs") <=> (SaveStageDone /\ Requested # {})
    /\ IF SaveStageDone
       THEN /\ DOMAIN config_file = DOMAIN init_file \cup Requested
            /\ \A n \in DOMAIN config_file :
                  config_file[n] = IF n \in Requested THEN selected
                                                     ELSE init_file[n]
       ELSE config_file = init_file

C8_Witness ==
    /\ pc = "done" /\ Requested = {"a"}
    /\ DOMAIN init_file = {"a", "b"}
    /\ config_file["a"] = selected /\ config_file["a"] # init_file["a"]

\* C9: with --config NAME and no --edit-config the prompt is never invoked
\* and the selection resolved is the stored items of NAME; in every other run
\* that reaches the selection step the prompt is invoked exactly once, over
\* the full list of choices, with the loaded items as default when there are
\* any and with no default otherwise.
C9_PresetOrPrompt ==
    IF config_name # "" /\ ~edit_config
    THEN /\ ~Called("checkbox")
         /\ SelectionObtained => selected = init_file[config_name]
         /\ Called("gather_selected_files") =>
               selected_files =
                   gather_selected_files(items, init_file[config_name])
    ELSE /\ Count("checkbox") = (IF SelectionObtained THEN 1 ELSE 0)
         /\ SelectionObtained =>
               /\ prompt_choices = [i \in 1..Len(items) |-> i]
               /\ prompt_default =
                     IF config_name # "" /\ init_file[config_name] # <<>>
                     THEN init_file[config_name] ELSE None

C9_Witness ==
    /\ pc = "done" /\ config_name = "b" /\ edit_config
    /\ Count("checkbox") = 1 /\ prompt_default = <<2, 4>>
    /\ Called("gather_selected_files")

\* C10: when the copy and the file write are both performed, the file holds
\* the text that was handed to the clipboard.
C10_SameArtifact ==
    (Called("copy") /\ file_text # <<>>) => file_text = clipboard_text

====
